---- MODULE Spec2Model ----
(***************************************************************************)
(* Chequebook service (pkg/settlement/swap/chequebook/chequebook.go).      *)
(*                                                                         *)
(* The service issues cheques against an on-chain chequebook contract.     *)
(* State: the state store (last cheque per beneficiary, total issued),     *)
(* the chain (token balance of the contract, totalPaidOut), the service    *)
(* mutex, and for every caller its position inside the operation it runs.  *)
(* Every call the service makes to a collaborator (store, chain, signer,   *)
(* sendChequeFunc) is one atomic step; callers interleave between steps.   *)
(***************************************************************************)
EXTENDS Integers, Sequences, FiniteSets, TLC

\* ------------------------------------------------------------------ bounds

\* bytes of an address (common.AddressLength is 20; the model scales it down)
AddressLength == 2
\* calls of service operations started over one behaviour
MaxCalls == 2
\* token balance of the chequebook contract in the initial state
InitBalance == 2
\* deposits and cheque cashings the chain performs over one behaviour
MaxChainOps == 1

\* ------------------------------------------------------- callers and inputs

Procs == {"p1", "p2"}
NoProc == "none"

\* amounts within Issue's precondition (amount > 0) and outside it
Amounts == {1, 2}
NonPositiveAmounts == {-1}

\* common.Address values: AddressLength bytes
Beneficiary1 == [i \in 1..AddressLength |-> IF i = AddressLength THEN 1 ELSE 0]
Beneficiary2 == [i \in 1..AddressLength |-> IF i = 1 THEN 10 ELSE 176]
Beneficiaries == {Beneficiary1, Beneficiary2}
ChequebookAddress == [i \in 1..AddressLength |-> 192]
ZeroAddress == [i \in 1..AddressLength |-> 0]

\* ------------------------------------------------------------ pure helpers

Max(a, b) == IF a >= b THEN a ELSE b

RECURSIVE SumSeq(_)
SumSeq(s) == IF s = <<>> THEN 0 ELSE Head(s) + SumSeq(Tail(s))

RECURSIVE SumOver(_, _)
SumOver(f, S) ==
  IF S = {} THEN 0
  ELSE LET x == CHOOSE y \in S : TRUE IN f[x] + SumOver(f, S \ {x})

\* ------------------------------------------------------------- store keys

lastIssuedChequeKeyPrefix == "chequebook_last_issued_cheque_"
totalIssuedKey == <<"chequebook_total_issued_">>

HexLower == <<"0","1","2","3","4","5","6","7","8","9","a","b","c","d","e","f">>
HexUpper == <<"0","1","2","3","4","5","6","7","8","9","A","B","C","D","E","F">>

\* fmt "%x" of one byte: two lower-case hex digits
ByteHex(b) == <<HexLower[(b \div 16) + 1], HexLower[(b % 16) + 1]>>

\* fmt "%x" of an address: every byte as two hex digits, leading zeros kept
RECURSIVE AddressHex(_)
AddressHex(a) == IF a = <<>> THEN <<>> ELSE ByteHex(Head(a)) \o AddressHex(Tail(a))

\* a key is the sequence of its characters; the literal prefix is one token
lastIssuedChequeKey(beneficiary) ==
  <<lastIssuedChequeKeyPrefix>> \o AddressHex(beneficiary)

\* strings.SplitAfter(k, prefix): cut k after every occurrence of prefix
RECURSIVE SplitAfterFrom(_, _, _)
SplitAfterFrom(k, prefix, cur) ==
  IF k = <<>> THEN <<cur>>
  ELSE IF Head(k) = prefix
       THEN <<Append(cur, Head(k))>> \o SplitAfterFrom(Tail(k), prefix, <<>>)
       ELSE SplitAfterFrom(Tail(k), prefix, Append(cur, Head(k)))

SplitAfter(k, prefix) == SplitAfterFrom(k, prefix, <<>>)

\* value of a hex digit, -1 when the character is none
HexVal(c) ==
  IF \E i \in 1..16 : HexLower[i] = c
  THEN (CHOOSE i \in 1..16 : HexLower[i] = c) - 1
  ELSE IF \E i \in 1..16 : HexUpper[i] = c
       THEN (CHOOSE i \in 1..16 : HexUpper[i] = c) - 1
       ELSE -1

\* hex.DecodeString as common.Hex2Bytes uses it: the bytes decoded before
\* the first invalid character, the error dropped
RECURSIVE Hex2Bytes(_)
Hex2Bytes(s) ==
  IF Len(s) < 2 THEN <<>>
  ELSE IF HexVal(s[1]) < 0 \/ HexVal(s[2]) < 0 THEN <<>>
       ELSE <<HexVal(s[1]) * 16 + HexVal(s[2])>> \o Hex2Bytes(SubSeq(s, 3, Len(s)))

\* common.FromHex: drop a leading 0x, pad an odd length with a leading 0
FromHex(s) ==
  LET t == IF Len(s) >= 2 /\ s[1] = "0" /\ s[2] \in {"x", "X"}
           THEN SubSeq(s, 3, Len(s)) ELSE s
      u == IF Len(t) % 2 = 1 THEN <<"0">> \o t ELSE t
  IN Hex2Bytes(u)

\* common.BytesToAddress: keep the last AddressLength bytes, right-aligned
BytesToAddress(b) ==
  LET c == IF Len(b) > AddressLength
           THEN SubSeq(b, Len(b) - AddressLength + 1, Len(b)) ELSE b
  IN [i \in 1..AddressLength |->
        IF i <= AddressLength - Len(c) THEN 0 ELSE c[i - (AddressLength - Len(c))]]

HexToAddress(s) == BytesToAddress(FromHex(s))

keyBeneficiary_FirstPart(key, prefix) ==
  LET split == SplitAfter(key, prefix)
  IN IF Len(split) # 2
     THEN [err |-> "no beneficiary in key", beneficiary |-> ZeroAddress]
     ELSE [err |-> "ok", beneficiary |-> HexToAddress(split[1])]

keyBeneficiary(key, prefix) ==
  LET split == SplitAfter(key, prefix)
  IN IF Len(split) # 2
     THEN [err |-> "no beneficiary in key", beneficiary |-> ZeroAddress]
     ELSE [err |-> "ok", beneficiary |-> HexToAddress(split[2])]

\* ------------------------------------------------------ cheques and store

NoSignature == <<>>

\* chequeSigner.Sign: the signature is a function of the cheque signed
Sign(cheque) == <<"sig", cheque.Beneficiary, cheque.CumulativePayout>>

NewCheque(beneficiary, cumulativePayout) ==
  [Chequebook |-> ChequebookAddress,
   CumulativePayout |-> cumulativePayout,
   Beneficiary |-> beneficiary]

\* store.Get into a *SignedCheque: the fields the stored object has are
\* filled in, a field it has not stays at its zero value
DecodeSignedCheque(v) ==
  [Cheque |-> [Chequebook |-> v.Chequebook,
               CumulativePayout |-> v.CumulativePayout,
               Beneficiary |-> v.Beneficiary],
   Signature |-> IF "Signature" \in DOMAIN v THEN v.Signature ELSE NoSignature]

StorePut(st, key, value) ==
  [k \in DOMAIN st \cup {key} |-> IF k = key THEN value ELSE st[k]]

\* service.totalIssued: the stored counter, 0 when the key is not found
totalIssued(st) == IF totalIssuedKey \in DOMAIN st THEN st[totalIssuedKey] ELSE 0

\* service.LastCheque: the decoded entry, ErrNoCheque when the key is not found
LastCheque(st, beneficiary) ==
  IF lastIssuedChequeKey(beneficiary) \in DOMAIN st
  THEN [err |-> "ok", cheque |-> <<DecodeSignedCheque(st[lastIssuedChequeKey(beneficiary)])>>]
  ELSE [err |-> "ErrNoCheque", cheque |-> <<>>]

\* service.LastCheques: every key under the prefix is parsed to an address,
\* each address once, its value read with LastCheque; any error aborts
LastCheques(st) ==
  LET keys == {k \in DOMAIN st : Len(k) >= 1 /\ k[1] = lastIssuedChequeKeyPrefix}
      parsed == [k \in keys |-> keyBeneficiary(k, lastIssuedChequeKeyPrefix)]
      addrs == {parsed[k].beneficiary : k \in keys}
  IN IF \E k \in keys : parsed[k].err # "ok"
     THEN [err |-> "parse address from key", result |-> <<>>]
     ELSE IF \E a \in addrs : LastCheque(st, a).err # "ok"
          THEN [err |-> "ErrNoCheque", result |-> <<>>]
          ELSE [err |-> "ok",
                result |-> <<[a \in addrs |-> LastCheque(st, a).cheque[1]]>>]

\* -------------------------------------------------------------------- state

VARIABLES
  store,         \* storage.StateStorer: key -> stored value
  balance,       \* chain: token balance of the chequebook contract
  totalPaidOut,  \* chain: total the contract has paid out for cashed cheques
  paidOut,       \* chain: what the contract has paid out to each beneficiary
  lock,          \* service.lock: the caller holding it, or NoProc
  pc,            \* each caller's position
  call,          \* each caller's operation and its arguments
  loc,           \* each caller's local variables
  res,           \* what each caller's last call returned
  pre,           \* the store as the caller's Issue found it on taking the lock
  sentMax,       \* per beneficiary, the highest cumulativePayout that
                 \* sendChequeFunc accepted
  issued,        \* per beneficiary, the cheques of the Issue calls that
                 \* returned nil: <<amount, cumulativePayout>>, in order
  requested,     \* per beneficiary, number of Issue calls and sum of amounts
  nCalls,        \* calls started
  nChainOps,     \* deposits and cashings done
  ownerBalance,  \* chain: token balance of the owner of the chequebook
  txs,           \* chain: the transactions sent by transactionService.Send,
                 \* in order; a transaction's hash is its index
  failedSend     \* per beneficiary, the Issue whose sendChequeFunc failed
                 \* last, until an Issue to the beneficiary returns nil:
                 \* <<[amount, cumulativePayout]>>, or <<>>

vars == <<store, balance, totalPaidOut, paidOut, lock, pc, call, loc, res, pre,
          sentMax, issued, requested, nCalls, nChainOps, ownerBalance, txs,
          failedSend>>

chainVars == <<balance, totalPaidOut, paidOut, nChainOps, ownerBalance, txs>>
histVars == <<sentMax, issued, requested, failedSend>>

EmptyStore == [k \in {} |-> 0]

NoCall == [op |-> "none", beneficiary |-> ZeroAddress, amount |-> 0]

NoLocals ==
  [totalIssued |-> 0, balance |-> 0, availableBalance |-> 0,
   cumulativePayout |-> 0, sig |-> NoSignature, signed |-> FALSE,
   sent |-> <<>>]

NoResult == [op |-> "none", err |-> "none", val |-> <<>>]

Init ==
  /\ store = EmptyStore
  /\ balance = InitBalance
  /\ totalPaidOut = 0
  /\ paidOut = [b \in Beneficiaries |-> 0]
  /\ lock = NoProc
  /\ pc = [p \in Procs |-> "idle"]
  /\ call = [p \in Procs |-> NoCall]
  /\ loc = [p \in Procs |-> NoLocals]
  /\ res = [p \in Procs |-> NoResult]
  /\ pre = [p \in Procs |-> EmptyStore]
  /\ sentMax = [b \in Beneficiaries |-> 0]
  /\ issued = [b \in Beneficiaries |-> <<>>]
  /\ requested = [b \in Beneficiaries |-> [calls |-> 0, amount |-> 0]]
  /\ nCalls = 0
  /\ nChainOps = 0
  /\ ownerBalance = InitBalance
  /\ txs = <<>>
  /\ failedSend = [b \in Beneficiaries |-> <<>>]

\* keys under the prefix of the ledger entries that no Issue writes: a suffix
\* that is no hex string, the key of Beneficiary1 with two characters after
\* it that are no hex digits, and a key that holds the prefix twice
CorruptKeys ==
  {<<lastIssuedChequeKeyPrefix, "z", "z">>,
   lastIssuedChequeKey(Beneficiary1) \o <<"z", "z">>,
   <<lastIssuedChequeKeyPrefix>> \o lastIssuedChequeKey(Beneficiary1)}

\* the service is started on a store that holds one such key
InitCorrupt ==
  /\ \E k \in CorruptKeys : store = StorePut(EmptyStore, k, NewCheque(Beneficiary1, 1))
  /\ balance = InitBalance
  /\ totalPaidOut = 0
  /\ paidOut = [b \in Beneficiaries |-> 0]
  /\ lock = NoProc
  /\ pc = [p \in Procs |-> "idle"]
  /\ call = [p \in Procs |-> NoCall]
  /\ loc = [p \in Procs |-> NoLocals]
  /\ res = [p \in Procs |-> NoResult]
  /\ pre = [p \in Procs |-> EmptyStore]
  /\ sentMax = [b \in Beneficiaries |-> 0]
  /\ issued = [b \in Beneficiaries |-> <<>>]
  /\ requested = [b \in Beneficiaries |-> [calls |-> 0, amount |-> 0]]
  /\ nCalls = 0
  /\ nChainOps = 0
  /\ ownerBalance = InitBalance
  /\ txs = <<>>
  /\ failedSend = [b \in Beneficiaries |-> <<>>]

\* positions at which an Issue holds the lock
IssuePcs ==
  {"AB_totalIssued", "AB_Balance", "AB_TotalPaidOut", "LastCheque", "Sign",
   "Send", "PutCheque", "totalIssued", "PutTotal"}

\* positions inside Withdraw, Deposit and WaitForDeposit
FundsPcs == {"W_Send", "D_BalanceOf", "D_Send", "WaitForReceipt"}

\* an Issue that unlocks only when it returns nil
Return_UnlockOnSuccess(p, err, val) ==
  /\ pc' = [pc EXCEPT ![p] = "idle"]
  /\ res' = [res EXCEPT ![p] = [op |-> call[p].op, err |-> err, val |-> val]]
  /\ lock' = IF call[p].op = "Issue" /\ err = "ok" THEN NoProc ELSE lock
  /\ call' = [call EXCEPT ![p] = NoCall]
  /\ loc' = [loc EXCEPT ![p] = NoLocals]
  /\ pre' = [pre EXCEPT ![p] = EmptyStore]

\* the operation returns: its locals are gone, and the deferred Unlock runs
\* when it is an Issue
Return(p, err, val) ==
  /\ pc' = [pc EXCEPT ![p] = "idle"]
  /\ res' = [res EXCEPT ![p] = [op |-> call[p].op, err |-> err, val |-> val]]
  /\ lock' = IF call[p].op = "Issue" THEN NoProc ELSE lock
  /\ call' = [call EXCEPT ![p] = NoCall]
  /\ loc' = [loc EXCEPT ![p] = NoLocals]
  /\ pre' = [pre EXCEPT ![p] = EmptyStore]

\* the operation goes on to its next call, with its locals as given
Goto(p, next, locals) ==
  /\ pc' = [pc EXCEPT ![p] = next]
  /\ loc' = [loc EXCEPT ![p] = locals]
  /\ UNCHANGED <<res, lock, call, pre>>

Start(p, c, first) ==
  /\ pc[p] = "idle"
  /\ nCalls < MaxCalls
  /\ nCalls' = nCalls + 1
  /\ call' = [call EXCEPT ![p] = c]
  /\ res' = [res EXCEPT ![p] = NoResult]
  /\ pc' = [pc EXCEPT ![p] = first]
  /\ UNCHANGED loc

\* ------------------------------------------------------------------- Issue

\* a caller enters Issue(beneficiary, amount, sendChequeFunc)
IssueCall(p, beneficiary, amount) ==
  /\ Start(p, [op |-> "Issue", beneficiary |-> beneficiary, amount |-> amount], "Lock")
  /\ requested' = [requested EXCEPT ![beneficiary] =
                     [calls |-> @.calls + 1, amount |-> @.amount + amount]]
  /\ UNCHANGED <<store, chainVars, lock, pre, sentMax, issued, failedSend>>

\* a caller repeats the Issue to beneficiary whose sendChequeFunc failed
\* last, with the same amount
IssueRetry(p, beneficiary) ==
  /\ pc[p] = "idle"
  /\ failedSend[beneficiary] # <<>>
  /\ requested[beneficiary].calls <= MaxCalls
  /\ call' = [call EXCEPT ![p] = [op |-> "Issue", beneficiary |-> beneficiary,
                                  amount |-> failedSend[beneficiary][1].amount]]
  /\ res' = [res EXCEPT ![p] = NoResult]
  /\ pc' = [pc EXCEPT ![p] = "Lock"]
  /\ requested' = [requested EXCEPT ![beneficiary] =
                     [calls |-> @.calls + 1,
                      amount |-> @.amount + failedSend[beneficiary][1].amount]]
  /\ UNCHANGED <<store, chainVars, lock, loc, pre, sentMax, issued, failedSend,
                 nCalls>>

\* the Issue calls of the example, in order, and the balance it starts from
ExampleScript ==
  <<[op |-> "Issue", beneficiary |-> Beneficiary1, amount |-> 30],
    [op |-> "Issue", beneficiary |-> Beneficiary2, amount |-> 80],
    [op |-> "Issue", beneficiary |-> Beneficiary2, amount |-> 70]>>

ExampleBalance == ExampleScript[1].amount + ExampleScript[3].amount

ExampleCallsMade == requested[Beneficiary1].calls + requested[Beneficiary2].calls

InitExample ==
  /\ store = EmptyStore
  /\ balance = ExampleBalance
  /\ totalPaidOut = 0
  /\ paidOut = [b \in Beneficiaries |-> 0]
  /\ lock = NoProc
  /\ pc = [p \in Procs |-> "idle"]
  /\ call = [p \in Procs |-> NoCall]
  /\ loc = [p \in Procs |-> NoLocals]
  /\ res = [p \in Procs |-> NoResult]
  /\ pre = [p \in Procs |-> EmptyStore]
  /\ sentMax = [b \in Beneficiaries |-> 0]
  /\ issued = [b \in Beneficiaries |-> <<>>]
  /\ requested = [b \in Beneficiaries |-> [calls |-> 0, amount |-> 0]]
  /\ nCalls = 0
  /\ nChainOps = 0
  /\ ownerBalance = InitBalance
  /\ txs = <<>>
  /\ failedSend = [b \in Beneficiaries |-> <<>>]

\* a caller makes the next Issue call of the example once the one before
\* has returned
ExampleCall(p) ==
  /\ pc[p] = "idle"
  /\ \A q \in Procs : call[q].op # "Issue"
  /\ ExampleCallsMade < Len(ExampleScript)
  /\ LET c == ExampleScript[ExampleCallsMade + 1]
     IN /\ call' = [call EXCEPT ![p] = c]
        /\ requested' = [requested EXCEPT ![c.beneficiary] =
                           [calls |-> @.calls + 1, amount |-> @.amount + c.amount]]
  /\ res' = [res EXCEPT ![p] = NoResult]
  /\ pc' = [pc EXCEPT ![p] = "Lock"]
  /\ UNCHANGED <<store, chainVars, lock, loc, pre, sentMax, issued, failedSend,
                 nCalls>>

\* s.lock.Lock() that does not wait for the holder to unlock
IssueLock_NoMutex(p) ==
  /\ pc[p] = "Lock"
  /\ lock' = p
  /\ pre' = [pre EXCEPT ![p] = store]
  /\ pc' = [pc EXCEPT ![p] = "AB_totalIssued"]
  /\ UNCHANGED <<store, chainVars, call, loc, res, histVars, nCalls>>

\* s.lock.Lock()
IssueLock(p) ==
  /\ pc[p] = "Lock"
  /\ lock = NoProc
  /\ lock' = p
  /\ pre' = [pre EXCEPT ![p] = store]
  /\ pc' = [pc EXCEPT ![p] = "AB_totalIssued"]
  /\ UNCHANGED <<store, chainVars, call, loc, res, histVars, nCalls>>

\* AvailableBalance: totalIssued, err := s.totalIssued()
AB_totalIssued(p) ==
  /\ pc[p] = "AB_totalIssued"
  /\ Goto(p, "AB_Balance", [loc[p] EXCEPT !.totalIssued = totalIssued(store)])
  /\ UNCHANGED <<store, chainVars, histVars, nCalls>>

\* AvailableBalance: balance, err := s.Balance(ctx)
AB_Balance(p) ==
  /\ pc[p] = "AB_Balance"
  /\ Goto(p, "AB_TotalPaidOut", [loc[p] EXCEPT !.balance = balance])
  /\ UNCHANGED <<store, chainVars, histVars, nCalls>>

\* the funds check of Issue that also refuses the whole available balance
OutOfFunds_OrEqual(amount, availableBalance) == amount >= availableBalance

\* the funds check of Issue with the comparison turned around
OutOfFunds_Reversed(amount, availableBalance) == amount < availableBalance

\* Issue: amount.Cmp(availableBalance) > 0
OutOfFunds(amount, availableBalance) == amount > availableBalance

\* the funds check of Withdraw with the comparison turned around
InsufficientFunds_Reversed(availableBalance, amount) == availableBalance > amount

\* Withdraw: availableBalance.Cmp(amount) < 0
InsufficientFunds(availableBalance, amount) == availableBalance < amount

\* AvailableBalance: totalPaidOut, err := TotalPaidOut(); the result is
\* balance + totalPaidOut - totalIssued; Issue and Withdraw then check the
\* funds
AB_TotalPaidOut(p) ==
  /\ pc[p] = "AB_TotalPaidOut"
  /\ LET availableBalance == (loc[p].balance + totalPaidOut) - loc[p].totalIssued
     IN IF call[p].op = "AvailableBalance"
        THEN Return(p, "ok", <<availableBalance>>)
        ELSE IF call[p].op = "Withdraw"
        THEN IF InsufficientFunds(availableBalance, call[p].amount)
             THEN Return(p, "ErrInsufficientFunds", <<>>)
             ELSE Goto(p, "W_Send",
                       [loc[p] EXCEPT !.availableBalance = availableBalance,
                                      !.totalIssued = 0, !.balance = 0])
        ELSE IF OutOfFunds(call[p].amount, availableBalance)
             THEN Return(p, "ErrOutOfFunds", <<>>)
             ELSE Goto(p, "LastCheque",
                       [loc[p] EXCEPT !.availableBalance = availableBalance,
                                      !.totalIssued = 0, !.balance = 0])
  /\ UNCHANGED <<store, chainVars, histVars, nCalls>>

\* Issue: lastCheque, err := s.LastCheque(beneficiary); the new
\* cumulativePayout is the last one (0 on ErrNoCheque) plus amount
Issue_LastCheque(p) ==
  /\ pc[p] = "LastCheque"
  /\ LET lastCheque == LastCheque(store, call[p].beneficiary)
         base == IF lastCheque.err = "ErrNoCheque" THEN 0
                 ELSE lastCheque.cheque[1].Cheque.CumulativePayout
     IN Goto(p, "Sign", [loc[p] EXCEPT !.cumulativePayout = base + call[p].amount])
  /\ UNCHANGED <<store, chainVars, histVars, nCalls>>

\* Issue that saves the cheque once it is signed, before it is sent
Issue_Sign_SaveBeforeSend(p) ==
  /\ pc[p] = "Sign"
  /\ Goto(p, "Send",
          [loc[p] EXCEPT
             !.sig = Sign(NewCheque(call[p].beneficiary, loc[p].cumulativePayout)),
             !.signed = TRUE])
  /\ store' = StorePut(store, lastIssuedChequeKey(call[p].beneficiary),
                       NewCheque(call[p].beneficiary, loc[p].cumulativePayout))
  /\ UNCHANGED <<chainVars, histVars, nCalls>>

\* Issue: sig, err := s.chequeSigner.Sign(&Cheque{...})
Issue_Sign(p) ==
  /\ pc[p] = "Sign"
  /\ Goto(p, "Send",
          [loc[p] EXCEPT
             !.sig = Sign(NewCheque(call[p].beneficiary, loc[p].cumulativePayout)),
             !.signed = TRUE])
  /\ UNCHANGED <<store, chainVars, histVars, nCalls>>

\* Issue that hands the cheque to sendChequeFunc a second time
Issue_Send_Twice(p) ==
  /\ pc[p] = "Send"
  /\ LET cheque == NewCheque(call[p].beneficiary, loc[p].cumulativePayout)
     IN Goto(p, IF loc[p].sent = <<>> THEN "Send" ELSE "PutCheque",
             [loc[p] EXCEPT !.sent = <<[Cheque |-> cheque, Signature |-> loc[p].sig]>>])
  /\ sentMax' = [sentMax EXCEPT ![call[p].beneficiary] = Max(@, loc[p].cumulativePayout)]
  /\ UNCHANGED <<store, chainVars, issued, requested, failedSend, nCalls>>

\* Issue: err = sendChequeFunc(&SignedCheque{Cheque: cheque, Signature: sig})
Issue_Send(p) ==
  /\ pc[p] = "Send"
  /\ LET cheque == NewCheque(call[p].beneficiary, loc[p].cumulativePayout)
     IN Goto(p, "PutCheque",
             [loc[p] EXCEPT !.sent = <<[Cheque |-> cheque, Signature |-> loc[p].sig]>>])
  /\ sentMax' = [sentMax EXCEPT ![call[p].beneficiary] = Max(@, loc[p].cumulativePayout)]
  /\ UNCHANGED <<store, chainVars, issued, requested, failedSend, nCalls>>

\* Issue: err = s.store.Put(lastIssuedChequeKey(beneficiary), cheque)
Issue_PutCheque(p) ==
  /\ pc[p] = "PutCheque"
  /\ store' = StorePut(store, lastIssuedChequeKey(call[p].beneficiary),
                       NewCheque(call[p].beneficiary, loc[p].cumulativePayout))
  /\ Goto(p, "totalIssued", loc[p])
  /\ UNCHANGED <<chainVars, histVars, nCalls>>

\* Issue: totalIssued, err := s.totalIssued()
Issue_totalIssued(p) ==
  /\ pc[p] = "totalIssued"
  /\ Goto(p, "PutTotal", [loc[p] EXCEPT !.totalIssued = totalIssued(store)])
  /\ UNCHANGED <<store, chainVars, histVars, nCalls>>

\* Issue: return s.store.Put(totalIssuedKey, totalIssued + amount)
Issue_PutTotal(p) ==
  /\ pc[p] = "PutTotal"
  /\ store' = StorePut(store, totalIssuedKey, loc[p].totalIssued + call[p].amount)
  /\ issued' = [issued EXCEPT ![call[p].beneficiary] =
                  Append(@, <<call[p].amount, loc[p].cumulativePayout>>)]
  /\ failedSend' = [failedSend EXCEPT ![call[p].beneficiary] = <<>>]
  /\ Return(p, "ok", <<>>)
  /\ UNCHANGED <<chainVars, sentMax, requested, nCalls>>

\* ------------------------------------------------------ the read operations

\* a caller enters AvailableBalance() on its own, outside any lock
AvailableBalanceCall(p) ==
  /\ Start(p, [op |-> "AvailableBalance", beneficiary |-> ZeroAddress, amount |-> 0],
           "AB_totalIssued")
  /\ UNCHANGED <<store, chainVars, lock, pre, histVars>>

\* a caller's LastCheque(beneficiary): one store.Get
LastChequeCall(p, beneficiary) ==
  /\ pc[p] = "idle"
  /\ nCalls < MaxCalls
  /\ nCalls' = nCalls + 1
  /\ LET r == LastCheque(store, beneficiary)
     IN res' = [res EXCEPT ![p] = [op |-> "LastCheque", err |-> r.err, val |-> r.cheque]]
  /\ UNCHANGED <<store, chainVars, lock, pc, call, loc, pre, histVars>>

\* a caller's LastCheques()
LastChequesCall(p) ==
  /\ pc[p] = "idle"
  /\ nCalls < MaxCalls
  /\ nCalls' = nCalls + 1
  /\ LET r == LastCheques(store)
     IN res' = [res EXCEPT ![p] = [op |-> "LastCheques", err |-> r.err, val |-> r.result]]
  /\ UNCHANGED <<store, chainVars, lock, pc, call, loc, pre, histVars>>

\* ------------------------------------------- Withdraw, Deposit and Balance

\* a transaction as transactionService.Send took it
NewTx(kind, amount) ==
  [kind |-> kind, amount |-> amount, mined |-> FALSE, status |-> 0]

\* a caller enters Withdraw(amount); it starts with AvailableBalance and
\* takes no lock
WithdrawCall(p, amount) ==
  /\ Start(p, [op |-> "Withdraw", beneficiary |-> ZeroAddress, amount |-> amount],
           "AB_totalIssued")
  /\ UNCHANGED <<store, chainVars, lock, pre, histVars>>

\* Withdraw that books the amount it withdraws on the counter
Withdraw_Send_Booked(p) ==
  /\ pc[p] = "W_Send"
  /\ txs' = Append(txs, NewTx("withdraw", call[p].amount))
  /\ store' = StorePut(store, totalIssuedKey, totalIssued(store) + call[p].amount)
  /\ Return(p, "ok", <<Len(txs) + 1>>)
  /\ UNCHANGED <<balance, totalPaidOut, paidOut, nChainOps, ownerBalance,
                 histVars, nCalls>>

\* Withdraw: txHash, err := s.transactionService.Send(withdraw(amount))
Withdraw_Send(p) ==
  /\ pc[p] = "W_Send"
  /\ txs' = Append(txs, NewTx("withdraw", call[p].amount))
  /\ Return(p, "ok", <<Len(txs) + 1>>)
  /\ UNCHANGED <<store, balance, totalPaidOut, paidOut, nChainOps, ownerBalance,
                 histVars, nCalls>>

\* a caller enters Deposit(amount)
DepositCall(p, amount) ==
  /\ Start(p, [op |-> "Deposit", beneficiary |-> ZeroAddress, amount |-> amount],
           "D_BalanceOf")
  /\ UNCHANGED <<store, chainVars, lock, pre, histVars>>

\* Deposit: balance, err := s.erc20Instance.BalanceOf(s.ownerAddress), and
\* balance.Cmp(amount) < 0
Deposit_BalanceOf(p) ==
  /\ pc[p] = "D_BalanceOf"
  /\ IF ownerBalance < call[p].amount
     THEN Return(p, "ErrInsufficientFunds", <<>>)
     ELSE Goto(p, "D_Send", [loc[p] EXCEPT !.balance = ownerBalance])
  /\ UNCHANGED <<store, chainVars, histVars, nCalls>>

\* Deposit: txHash, err := s.transactionService.Send(transfer(address, amount))
Deposit_Send(p) ==
  /\ pc[p] = "D_Send"
  /\ txs' = Append(txs, NewTx("deposit", call[p].amount))
  /\ Return(p, "ok", <<Len(txs) + 1>>)
  /\ UNCHANGED <<store, balance, totalPaidOut, paidOut, nChainOps, ownerBalance,
                 histVars, nCalls>>

\* a caller enters WaitForDeposit(txHash)
WaitForDepositCall(p, txHash) ==
  /\ txHash \in DOMAIN txs
  /\ txs[txHash].kind = "deposit"
  /\ Start(p, [op |-> "WaitForDeposit", beneficiary |-> ZeroAddress, amount |-> 0,
               txHash |-> txHash], "WaitForReceipt")
  /\ UNCHANGED <<store, chainVars, lock, pre, histVars>>

\* WaitForDeposit: receipt, err := s.transactionService.WaitForReceipt(txHash),
\* and receipt.Status != 1
WaitForDeposit_Receipt(p) ==
  /\ pc[p] = "WaitForReceipt"
  /\ txs[call[p].txHash].mined
  /\ IF txs[call[p].txHash].status # 1
     THEN Return(p, "ErrTransactionReverted", <<>>)
     ELSE Return(p, "ok", <<>>)
  /\ UNCHANGED <<store, chainVars, histVars, nCalls>>

\* a caller's Balance(): one call of the chequebook contract
BalanceCall(p) ==
  /\ pc[p] = "idle"
  /\ nCalls < MaxCalls
  /\ nCalls' = nCalls + 1
  /\ res' = [res EXCEPT ![p] = [op |-> "Balance", err |-> "ok", val |-> <<balance>>]]
  /\ UNCHANGED <<store, chainVars, lock, pc, call, loc, pre, histVars>>

\* ------------------------------------------- errors of the collaborators

Fail(p, at, err) ==
  /\ pc[p] \in at
  /\ Return(p, err, <<>>)
  /\ UNCHANGED <<store, chainVars, histVars, nCalls>>

\* store.Get returns an error other than ErrNotFound
StoreGetErr(p) ==
  Fail(p, {"AB_totalIssued", "LastCheque", "totalIssued"}, "store get error")

\* Balance or TotalPaidOut returns an error
ChainCallErr(p) == Fail(p, {"AB_Balance", "AB_TotalPaidOut"}, "chain call error")

\* chequeSigner.Sign returns an error
SignErr(p) == Fail(p, {"Sign"}, "sign error")

\* sendChequeFunc returns an error
SendErr(p) ==
  /\ pc[p] = "Send"
  /\ failedSend' = [failedSend EXCEPT ![call[p].beneficiary] =
                      <<[amount |-> call[p].amount,
                         cumulativePayout |-> loc[p].cumulativePayout]>>]
  /\ Return(p, "send error", <<>>)
  /\ UNCHANGED <<store, chainVars, sentMax, issued, requested, nCalls>>

\* store.Put returns an error and has written nothing
StorePutErr(p) == Fail(p, {"PutCheque", "PutTotal"}, "store put error")

\* transactionService.Send returns an error and has sent nothing
SendTxErr(p) == Fail(p, {"W_Send", "D_Send"}, "send transaction error")

\* BalanceOf or WaitForReceipt returns an error
FundsCallErr(p) == Fail(p, {"D_BalanceOf", "WaitForReceipt"}, "chain call error")

\* the process stops and is started again: the store and the chain persist,
\* the mutex and every call in progress are gone
Crash ==
  /\ \E p \in Procs : pc[p] # "idle"
  /\ pc' = [p \in Procs |-> "idle"]
  /\ call' = [p \in Procs |-> NoCall]
  /\ loc' = [p \in Procs |-> NoLocals]
  /\ res' = [p \in Procs |-> NoResult]
  /\ pre' = [p \in Procs |-> EmptyStore]
  /\ lock' = NoProc
  /\ UNCHANGED <<store, chainVars, histVars, nCalls>>

\* --------------------------------------------------------------- the chain

\* tokens are deposited into the chequebook contract
ChainDeposit ==
  /\ nChainOps < MaxChainOps
  /\ nChainOps' = nChainOps + 1
  /\ balance' = balance + 1
  /\ UNCHANGED <<store, totalPaidOut, paidOut, lock, pc, call, loc, res, pre,
                 histVars, nCalls, ownerBalance, txs>>

\* a beneficiary cashes r of what the cheques it received entitle it to:
\* the contract's balance falls and its totalPaidOut rises by r
ChainCashCheque(beneficiary, r) ==
  /\ nChainOps < MaxChainOps
  /\ nChainOps' = nChainOps + 1
  /\ r <= balance
  /\ paidOut[beneficiary] + r <= sentMax[beneficiary]
  /\ balance' = balance - r
  /\ totalPaidOut' = totalPaidOut + r
  /\ paidOut' = [paidOut EXCEPT ![beneficiary] = @ + r]
  /\ UNCHANGED <<store, lock, pc, call, loc, res, pre, histVars, nCalls,
                 ownerBalance, txs>>

\* the oldest pending transaction is mined: a transfer moves tokens of the
\* owner into the chequebook contract, a withdrawal moves tokens of the
\* contract to the owner, and a transaction that cannot be paid is reverted
ChainMine(txHash) ==
  /\ txHash \in DOMAIN txs
  /\ ~txs[txHash].mined
  /\ \A h \in 1..(txHash - 1) : txs[h].mined
  /\ LET tx == txs[txHash]
         from == IF tx.kind = "deposit" THEN ownerBalance ELSE balance
         ok == tx.amount <= from
         moved == IF ~ok THEN 0 ELSE IF tx.kind = "deposit" THEN tx.amount
                  ELSE 0 - tx.amount
     IN /\ txs' = [txs EXCEPT ![txHash].mined = TRUE,
                              ![txHash].status = IF ok THEN 1 ELSE 0]
        /\ balance' = balance + moved
        /\ ownerBalance' = ownerBalance - moved
  /\ UNCHANGED <<store, totalPaidOut, paidOut, nChainOps, lock, pc, call, loc,
                 res, pre, histVars, nCalls>>

\* ---------------------------------------------------------- specifications

IssueSteps(p) ==
  \/ IssueLock(p)
  \/ AB_totalIssued(p)
  \/ AB_Balance(p)
  \/ AB_TotalPaidOut(p)
  \/ Issue_LastCheque(p)
  \/ Issue_Sign(p)
  \/ Issue_Send(p)
  \/ Issue_PutCheque(p)
  \/ Issue_totalIssued(p)
  \/ Issue_PutTotal(p)

Calls(p) ==
  \/ \E b \in Beneficiaries, a \in Amounts : IssueCall(p, b, a)
  \/ AvailableBalanceCall(p)
  \/ \E b \in Beneficiaries : LastChequeCall(p, b)
  \/ LastChequesCall(p)

Errors(p) ==
  \/ StoreGetErr(p)
  \/ ChainCallErr(p)
  \/ SignErr(p)
  \/ SendErr(p)
  \/ StorePutErr(p)

Chain ==
  \/ ChainDeposit
  \/ \E b \in Beneficiaries, r \in 1..InitBalance : ChainCashCheque(b, r)

FundsCalls(p) ==
  \/ \E a \in Amounts : WithdrawCall(p, a)
  \/ \E a \in Amounts : DepositCall(p, a)
  \/ \E h \in 1..MaxCalls : WaitForDepositCall(p, h)
  \/ BalanceCall(p)

FundsSteps(p) ==
  \/ Withdraw_Send(p)
  \/ Deposit_BalanceOf(p)
  \/ Deposit_Send(p)
  \/ WaitForDeposit_Receipt(p)

FundsErrors(p) ==
  \/ SendTxErr(p)
  \/ FundsCallErr(p)

\* every collaborator succeeds and the process keeps running
NextOK ==
  \/ \E p \in Procs : Calls(p)
  \/ \E p \in Procs : IssueSteps(p)
  \/ Chain

\* collaborators may fail and the process may stop and start again
Next ==
  \/ \E p \in Procs : Calls(p)
  \/ \E p \in Procs : IssueSteps(p)
  \/ \E p \in Procs : Errors(p)
  \/ Crash
  \/ Chain

\* as Next, and callers may pass Issue an amount that is not positive
NextAnyAmount ==
  \/ Next
  \/ \E p \in Procs, b \in Beneficiaries, a \in NonPositiveAmounts : IssueCall(p, b, a)

\* as NextOK, with the operations that move funds, the transactions they
\* send and the errors of sending them
NextFunds ==
  \/ \E p \in Procs : Calls(p)
  \/ \E p \in Procs : IssueSteps(p)
  \/ \E p \in Procs : FundsCalls(p)
  \/ \E p \in Procs : FundsSteps(p)
  \/ \E p \in Procs : FundsErrors(p)
  \/ \E h \in 1..MaxCalls : ChainMine(h)
  \/ Chain

\* as Next, and a caller may repeat an Issue whose sendChequeFunc failed
NextRetry ==
  \/ Next
  \/ \E p \in Procs, b \in Beneficiaries : IssueRetry(p, b)

\* as NextOK, and sendChequeFunc may fail and the Issue be repeated
NextRetryOK ==
  \/ NextOK
  \/ \E p \in Procs : SendErr(p)
  \/ \E p \in Procs, b \in Beneficiaries : IssueRetry(p, b)

\* the Issue calls of the example one after the other, every collaborator
\* succeeding, with callers reading meanwhile
NextExample ==
  \/ \E p \in Procs : ExampleCall(p)
  \/ \E p \in Procs : IssueSteps(p)
  \/ \E p \in Procs : AvailableBalanceCall(p)
  \/ \E p \in Procs, b \in Beneficiaries : LastChequeCall(p, b)
  \/ \E p \in Procs : LastChequesCall(p)
  \/ \E p \in Procs : BalanceCall(p)

\* Issue and Withdraw calls running together, every collaborator succeeding
\* and the chain left alone
NextWithdrawIssue ==
  \/ \E p \in Procs, b \in Beneficiaries, a \in Amounts : IssueCall(p, b, a)
  \/ \E p \in Procs, a \in Amounts : WithdrawCall(p, a)
  \/ \E p \in Procs : IssueSteps(p)
  \/ \E p \in Procs : Withdraw_Send(p)

\* calls of Issue and of the read operations whose collaborators may fail
\* but always return, the process running on
NextLive ==
  \/ \E p \in Procs : Calls(p)
  \/ \E p \in Procs : IssueSteps(p)
  \/ \E p \in Procs : Errors(p)

\* every call in progress goes on: the collaborator it waits for returns,
\* with a result or with an error
CallReturns(p) ==
  \/ AB_totalIssued(p)
  \/ AB_Balance(p)
  \/ AB_TotalPaidOut(p)
  \/ Issue_LastCheque(p)
  \/ Issue_Sign(p)
  \/ Issue_Send(p)
  \/ Issue_PutCheque(p)
  \/ Issue_totalIssued(p)
  \/ Issue_PutTotal(p)
  \/ Errors(p)

\* collaborators return, and sync.Mutex hands the lock to a caller that keeps
\* waiting for it (its starvation mode), so no waiter is passed over for ever
Fairness ==
  \A p \in Procs : WF_vars(CallReturns(p)) /\ SF_vars(IssueLock(p))

SpecOK == Init /\ [][NextOK]_vars
SpecLive == Init /\ [][NextLive]_vars /\ Fairness
SpecWithdrawIssue == Init /\ [][NextWithdrawIssue]_vars
SpecExample == InitExample /\ [][NextExample]_vars
SpecCorrupt == InitCorrupt /\ [][NextOK]_vars
SpecRetry == Init /\ [][NextRetry]_vars
SpecRetryOK == Init /\ [][NextRetryOK]_vars
SpecFunds == Init /\ [][NextFunds]_vars
Spec == Init /\ [][Next]_vars
SpecAnyAmount == Init /\ [][NextAnyAmount]_vars

TypeOK ==
  /\ lock \in Procs \cup {NoProc}
  /\ \A p \in Procs : pc[p] \in IssuePcs \cup FundsPcs \cup {"idle", "Lock"}
  /\ balance >= 0
  /\ nCalls \in 0..MaxCalls

\* ------------------------------------------------------------------ claims

\* amounts of the Issue calls to b that returned nil, and their sum
IssuedAmounts(b) == [k \in 1..Len(issued[b]) |-> issued[b][k][1]]
IssuedPayouts(b) == [k \in 1..Len(issued[b]) |-> issued[b][k][2]]
IssuedTotal == SumOver([b \in Beneficiaries |-> SumSeq(IssuedAmounts(b))], Beneficiaries)

\* C1: in every reachable state, also after a crash or a failed store write
\* inside Issue followed by a restart and further Issue calls, the value
\* authorized by the cheques handed to sendChequeFunc (for each beneficiary
\* the highest cumulativePayout it accepted, summed over the beneficiaries)
\* does not exceed balance + totalPaidOut, the chain changing only through
\* deposits and cashed cheques.
C1_AuthorizedWithinFunds ==
  SumOver(sentMax, Beneficiaries) <= balance + totalPaidOut

\* C2: for every beneficiary, over the cheques of the Issue calls that
\* returned nil, in their order and for every amount Issue accepts, the
\* cumulativePayout never decreases from one cheque to the next.
C2_PayoutNeverDecreases ==
  \A b \in Beneficiaries :
    \A k \in 1..(Len(issued[b]) - 1) : IssuedPayouts(b)[k] <= IssuedPayouts(b)[k + 1]

\* C3: with every amount > 0, the cheque of the k-th Issue to b that returned
\* nil has cumulativePayout equal to the sum of the amounts of the first k
\* such calls; while none has returned nil LastCheque(b) is ErrNoCheque, and
\* afterwards LastCheque(b).CumulativePayout is that running sum (observed
\* while no Issue holds the lock).
C3_PayoutIsRunningSum ==
  \A b \in Beneficiaries :
    /\ \A k \in 1..Len(issued[b]) :
         IssuedPayouts(b)[k] = SumSeq(SubSeq(IssuedAmounts(b), 1, k))
    /\ lock = NoProc =>
         IF issued[b] = <<>>
         THEN LastCheque(store, b).err = "ErrNoCheque"
         ELSE /\ LastCheque(store, b).err = "ok"
              /\ LastCheque(store, b).cheque[1].Cheque.CumulativePayout
                   = SumSeq(IssuedAmounts(b))

\* C4: when the Issue calls that returned nil have amounts summing to T, the
\* stored total-issued counter is T, and T <= balance + totalPaidOut in every
\* state, the chain changing only through deposits and cashed cheques.
C4_TotalIssuedWithinFunds ==
  /\ totalIssued(store) = IssuedTotal
  /\ IssuedTotal <= balance + totalPaidOut

\* the first half of C4 alone
C4_CounterIsIssuedTotal == totalIssued(store) = IssuedTotal

\* positions of an Issue after its funds check has passed
PastFundsCheck == {"LastCheque", "Sign", "Send", "PutCheque", "totalIssued", "PutTotal"}

\* C5: an Issue whose amount is greater than the available balance it
\* computed under the lock returns ErrOutOfFunds (no Issue goes past the funds
\* check with such an amount); that call has not signed and not called
\* sendChequeFunc, and every ledger entry and the total-issued counter are
\* what they were when the call took the lock.
C5_OutOfFundsTouchesNothing ==
  /\ [](\A p \in Procs :
          pc[p] \in PastFundsCheck => call[p].amount <= loc[p].availableBalance)
  /\ [][\A p \in Procs :
          (pc[p] = "AB_TotalPaidOut" /\ res'[p].err = "ErrOutOfFunds") =>
            /\ call[p].op = "Issue"
            /\ call[p].amount > (loc[p].balance + totalPaidOut) - loc[p].totalIssued
            /\ ~loc[p].signed
            /\ loc[p].sent = <<>>
            /\ sentMax' = sentMax
            /\ store' = store
            /\ store' = pre[p]]_vars

\* an Issue returned ErrOutOfFunds while the store held a counter and an entry
C5_Witness ==
  \E p \in Procs :
    /\ res[p].op = "Issue"
    /\ res[p].err = "ErrOutOfFunds"
    /\ totalIssued(store) > 0
    /\ \E b \in Beneficiaries : LastCheque(store, b).err = "ok"

\* C6: when sendChequeFunc returns an error, Issue returns that error, and
\* the ledger entry of the beneficiary, every other ledger entry and the
\* total-issued counter are what they were before the call.
C6_SendErrorTouchesNothing ==
  [][\A p \in Procs :
       (pc[p] = "Send" /\ pc'[p] = "idle" /\ res'[p].err # "none") =>
         /\ res'[p].err = "send error"
         /\ store' = store
         /\ store' = pre[p]
         /\ sentMax' = sentMax
         /\ issued' = issued]_vars

\* an Issue returned the error of sendChequeFunc while the store held a
\* counter and the ledger entry of a beneficiary
C6_Witness ==
  \E p \in Procs :
    /\ res[p].op = "Issue"
    /\ res[p].err = "send error"
    /\ totalIssued(store) > 0
    /\ \E b \in Beneficiaries : LastCheque(store, b).err = "ok"

\* the callers whose Issue is between its funds check and its last write
InIssue == {p \in Procs : call[p].op = "Issue" /\ pc[p] \in IssuePcs}

\* C7: on one service at most one Issue is between its funds check and its
\* final counter write (the call of sendChequeFunc included), whatever the
\* number of callers and whichever beneficiaries they issue to.
C7_OneIssueInFlight ==
  /\ Cardinality(InIssue) <= 1
  /\ \A p \in InIssue : lock = p

\* one Issue is inside sendChequeFunc while an Issue to another beneficiary
\* waits for the lock
C7_Witness ==
  \E p, q \in Procs :
    /\ pc[p] = "Send"
    /\ pc[q] = "Lock"
    /\ call[p].beneficiary # call[q].beneficiary

\* cumulativePayout of the ledger entry of b, 0 when there is none
LedgerPayout(b) ==
  IF LastCheque(store, b).err = "ok"
  THEN LastCheque(store, b).cheque[1].Cheque.CumulativePayout
  ELSE 0

IssueCallsStarted == SumOver([b \in Beneficiaries |-> requested[b].calls], Beneficiaries)

\* C8: N Issue calls of amount 1 each, to several beneficiaries, running
\* concurrently on one service whose available balance is at least N, with
\* signing, sending and the store succeeding: once all have returned the
\* total-issued counter is N and the cumulativePayout of every beneficiary is
\* the number of calls addressed to it.
C8_NoLostUpdate ==
  ( /\ \A p \in Procs : pc[p] = "idle"
    /\ \A b \in Beneficiaries : requested[b].amount = requested[b].calls
    /\ IssueCallsStarted <= InitBalance )
  => /\ totalIssued(store) = IssueCallsStarted
     /\ \A b \in Beneficiaries : LedgerPayout(b) = requested[b].calls

\* two calls of amount 1, one to each beneficiary, have returned
C8_Witness ==
  /\ \A p \in Procs : pc[p] = "idle" /\ res[p].op = "Issue" /\ res[p].err = "ok"
  /\ \A b \in Beneficiaries : requested[b].calls >= 1 /\ requested[b].amount = requested[b].calls
  /\ totalIssued(store) = IssueCallsStarted

\* C9: after an Issue to b that returned nil, the ledger entry of b is the
\* SignedCheque that was handed to sendChequeFunc: LastCheque(b) has its
\* Chequebook, Beneficiary, CumulativePayout and Signature.
C9_LedgerEntryIsSentCheque ==
  [][\A p \in Procs :
       (pc[p] = "PutTotal" /\ res'[p].err = "ok") =>
         LastCheque(store', call[p].beneficiary).cheque = loc[p].sent]_vars

\* the beneficiaries with a ledger entry
WithLedgerEntry == {b \in Beneficiaries : lastIssuedChequeKey(b) \in DOMAIN store}

C10_TwoCheques ==
  /\ lock = NoProc
  /\ \E b \in Beneficiaries :
       /\ Len(issued[b]) >= 2
       /\ b \in DOMAIN LastCheques(store).result[1]

\* what AvailableBalance returns to caller p from the values it has read
ComputedAvailable(p) == (loc[p].balance + totalPaidOut) - loc[p].totalIssued

\* C11: every step of a Withdraw(amount) leaves the store as it is; the step
\* that sends the withdraw transaction is taken only with amount at most the
\* available balance the call computed at its check; and when amount exceeds
\* that available balance the call returns ErrInsufficientFunds at the check
\* and sends no transaction.
C11_WithdrawWithinFunds ==
  [][\A p \in Procs :
       (call[p].op = "Withdraw" /\ pc'[p] # pc[p]) =>
          /\ store' = store
          /\ (Len(txs') > Len(txs)) =>
                /\ pc[p] = "W_Send"
                /\ call[p].amount <= loc[p].availableBalance
                /\ txs' = Append(txs, NewTx("withdraw", call[p].amount))
          /\ (pc'[p] = "W_Send") =>
                /\ loc'[p].availableBalance = ComputedAvailable(p)
                /\ call[p].amount <= ComputedAvailable(p)
          /\ (pc[p] = "AB_TotalPaidOut" /\ call[p].amount > ComputedAvailable(p)) =>
                /\ pc'[p] = "idle"
                /\ res'[p].err \in {"ErrInsufficientFunds", "chain call error"}
                /\ txs' = txs]_vars

\* a Withdraw has sent its transaction and another was refused
C11_Witness ==
  \E p, q \in Procs :
    /\ res[p].op = "Withdraw" /\ res[p].err = "ok"
    /\ res[q].op = "Withdraw" /\ res[q].err = "ErrInsufficientFunds"
    /\ Len(txs) = 1 /\ txs[1].kind = "withdraw"

\* caller p is in an Issue with the beneficiary and the amount of the Issue
\* whose sendChequeFunc failed last, and no Issue to the beneficiary has
\* returned nil since
IsRetry(p) ==
  /\ call[p].op = "Issue"
  /\ failedSend[call[p].beneficiary] # <<>>
  /\ failedSend[call[p].beneficiary][1].amount = call[p].amount

\* C12: when an Issue(b, a) fails at sendChequeFunc and the same call is made
\* again with no Issue to b returning nil in between, the cheque the second
\* call builds has the cumulativePayout of the cheque of the failed call, and
\* when the second call returns nil the ledger entry of b is that
\* cumulativePayout and the counter is a above what the call found.
C12_RetryRepeatsCheque ==
  [][\A p \in Procs :
       IsRetry(p) =>
         LET failed == failedSend[call[p].beneficiary][1]
         IN /\ (pc[p] = "LastCheque" /\ pc'[p] = "Sign") =>
                  loc'[p].cumulativePayout = failed.cumulativePayout
            /\ (pc[p] = "PutTotal" /\ res'[p].err = "ok") =>
                  /\ LastCheque(store', call[p].beneficiary).err = "ok"
                  /\ LastCheque(store', call[p].beneficiary).cheque[1].Cheque.CumulativePayout
                       = failed.cumulativePayout
                  /\ totalIssued(store') = totalIssued(pre[p]) + call[p].amount]_vars

\* the statements of Issue under the lock, numbered in the order of the code
IssueRank ==
  [k \in IssuePcs |->
     CASE k = "AB_totalIssued" -> 1
       [] k = "AB_Balance" -> 2
       [] k = "AB_TotalPaidOut" -> 3
       [] k = "LastCheque" -> 4
       [] k = "Sign" -> 5
       [] k = "Send" -> 6
       [] k = "PutCheque" -> 7
       [] k = "totalIssued" -> 8
       [] k = "PutTotal" -> 9]

\* C13: an Issue takes its steps in the order funds check, sign, deliver,
\* ledger write, counter write: each step goes to the next statement or
\* returns, so sendChequeFunc is called at most once in a call and exactly
\* once in a call that got past the funds check and the signing without
\* error; it is called only with the funds check passed and the cheque
\* signed; the store changes only in a step of an Issue to which
\* sendChequeFunc has returned nil, first the ledger entry of its
\* beneficiary and then the counter.
C13_StepsInOrder ==
  /\ [](\A p \in Procs :
          (call[p].op = "Issue" /\ pc[p] \in IssuePcs) =>
             /\ (IssueRank[pc[p]] >= 4) => call[p].amount <= loc[p].availableBalance
             /\ (IssueRank[pc[p]] >= 6) => loc[p].signed
             /\ (IssueRank[pc[p]] >= 7) <=> (loc[p].sent # <<>>))
  /\ [][/\ \A p \in Procs :
            (call[p].op = "Issue" /\ pc[p] \in IssuePcs /\ pc'[p] # pc[p]) =>
               /\ \/ pc'[p] = "idle"
                  \/ IssueRank[pc'[p]] = IssueRank[pc[p]] + 1
               /\ (sentMax' # sentMax) => pc[p] = "Send"
        /\ (store' # store) =>
             \E p \in Procs :
               LET key == lastIssuedChequeKey(call[p].beneficiary)
               IN /\ call[p].op = "Issue"
                  /\ lock = p
                  /\ loc[p].sent # <<>>
                  /\ \/ /\ pc[p] = "PutCheque"
                        /\ key \in DOMAIN store'
                        /\ store' = StorePut(store, key, store'[key])
                     \/ /\ pc[p] = "PutTotal"
                        /\ key \in DOMAIN store
                        /\ store[key].CumulativePayout = loc[p].cumulativePayout
                        /\ store' = StorePut(store, totalIssuedKey, store'[totalIssuedKey])
       ]_vars

\* an Issue has taken every step up to its last, the write of the counter
C13_Witness ==
  \E p \in Procs :
    /\ pc[p] = "PutTotal"
    /\ loc[p].sent # <<>>
    /\ LedgerPayout(call[p].beneficiary) = loc[p].cumulativePayout

\* s is the canonical hex encoding of an address: two hex digits per byte
ValidHexAddress(s) ==
  /\ Len(s) = 2 * AddressLength
  /\ \A i \in 1..Len(s) : HexVal(s[i]) >= 0

\* the store holds a key with the prefix of the ledger entries whose suffix
\* is not the hex encoding of an address
HasCorruptKey(st) ==
  \E k \in DOMAIN st :
    /\ Len(k) >= 1
    /\ k[1] = lastIssuedChequeKeyPrefix
    /\ ~ValidHexAddress(Tail(k))

\* C14: whenever the store holds a key with the prefix of the ledger entries
\* whose suffix is not a valid hex address, LastCheques returns an error and
\* no mapping, however many well-formed entries there are.
C14_CorruptKeyFails ==
  HasCorruptKey(store) =>
    /\ LastCheques(store).err # "ok"
    /\ LastCheques(store).result = <<>>

\* C15: from balance + totalPaidOut = 100 and an empty store, every
\* collaborator succeeding: Issue(B1, 30) returns nil and leaves the ledger
\* entry of B1 at 30 and the counter at 30; Issue(B2, 80) then returns
\* ErrOutOfFunds and leaves B2 without entry and the counter at 30;
\* Issue(B2, 70) then returns nil and leaves the entry of B2 at 70, the
\* counter at 100 and the available balance at 0.  An Issue whose amount is
\* exactly the available balance passes the funds check, and when it returns
\* nil the available balance is 0.
C15_Example ==
  /\ []((\A p \in Procs : call[p].op # "Issue") =>
          /\ (ExampleCallsMade = 1) =>
                /\ LedgerPayout(Beneficiary1) = 30
                /\ totalIssued(store) = 30
          /\ (ExampleCallsMade = 2) =>
                /\ LedgerPayout(Beneficiary1) = 30
                /\ LastCheque(store, Beneficiary2).err = "ErrNoCheque"
                /\ totalIssued(store) = 30
          /\ (ExampleCallsMade = 3) =>
                /\ LedgerPayout(Beneficiary1) = 30
                /\ LedgerPayout(Beneficiary2) = 70
                /\ totalIssued(store) = 100
                /\ (balance + totalPaidOut) - totalIssued(store) = 0)
  /\ [][\A p \in Procs :
          (call[p].op = "Issue" /\ pc'[p] # pc[p]) =>
             /\ (pc'[p] = "idle") =>
                   res'[p].err = IF ExampleCallsMade = 2 THEN "ErrOutOfFunds" ELSE "ok"
             /\ (pc[p] = "AB_TotalPaidOut" /\ call[p].amount = ComputedAvailable(p)) =>
                   pc'[p] = "LastCheque"
             /\ (pc'[p] = "idle" /\ call[p].amount = loc[p].availableBalance
                   /\ res'[p].err = "ok") =>
                   (balance + totalPaidOut) - totalIssued(store') = 0]_vars

\* the three calls of the example have returned, the last one having asked
\* for exactly the available balance
C15_Witness ==
  /\ \A p \in Procs : pc[p] = "idle"
  /\ ExampleCallsMade = 3
  /\ Len(issued[Beneficiary2]) = 1
  /\ issued[Beneficiary2][1] = <<70, 70>>
  /\ totalIssued(store) = 100

\* the operations other than Issue that run in steps, and those of one step
OtherStepOps == {"AvailableBalance", "Withdraw", "Deposit", "WaitForDeposit"}
OtherAtomicOps == {"Balance", "LastCheque", "LastCheques"}

\* C16: the store changes only in a step of an Issue to which sendChequeFunc
\* has returned nil; no step of AvailableBalance, Withdraw, Deposit or
\* WaitForDeposit and no Balance, LastCheque or LastCheques changes it; a
\* step of an Issue to b leaves the ledger entry of every other beneficiary
\* as it is; and no key of the store is ever removed, so a beneficiary with
\* a ledger entry keeps one.
C16_OnlyIssueWrites ==
  [][/\ (store' # store) =>
          \E p \in Procs :
            /\ call[p].op = "Issue"
            /\ pc'[p] # pc[p]
            /\ loc[p].sent # <<>>
     /\ \A p \in Procs :
          (call[p].op \in OtherStepOps /\ pc'[p] # pc[p]) => store' = store
     /\ \A p \in Procs :
          (res'[p] # res[p] /\ res'[p].op \in OtherStepOps \cup OtherAtomicOps) =>
             store' = store
     /\ \A p \in Procs :
          (call[p].op = "Issue" /\ pc'[p] # pc[p]) =>
             \A b \in Beneficiaries \ {call[p].beneficiary} :
               LastCheque(store', b) = LastCheque(store, b)
     /\ DOMAIN store \subseteq DOMAIN store'
     /\ \A b \in Beneficiaries :
          (LastCheque(store, b).err = "ok") => (LastCheque(store', b).err = "ok")
    ]_vars

\* an Issue has written the ledger entry of one beneficiary and then a
\* Withdraw or a Deposit has sent its transaction
C16_Witness ==
  /\ \E b \in Beneficiaries :
       /\ LastCheque(store, b).err = "ok"
       /\ \E c \in Beneficiaries : LastCheque(store, c).err = "ErrNoCheque"
  /\ \E p \in Procs : res[p].op \in {"Withdraw", "Deposit"} /\ res[p].err = "ok"
  /\ Len(txs) = 1

\* C17: in the step in which a Withdraw(amount) sends its transaction, amount
\* is at most balance + totalPaidOut less the amounts of all cheques that
\* sendChequeFunc has accepted so far, however the steps of concurrent Issue
\* calls fall between the steps of the Withdraw.
C17_WithdrawLeavesIssuedFunds ==
  [][\A p \in Procs :
       (call[p].op = "Withdraw" /\ pc[p] = "W_Send" /\ Len(txs') > Len(txs)) =>
          call[p].amount <= (balance + totalPaidOut) - SumOver(sentMax, Beneficiaries)
    ]_vars

\* balance + totalPaidOut - totalIssued on the chain and the store as they are
TrueAvailable == (balance + totalPaidOut) - totalIssued(store)

\* C18: the available balance an Issue computes, from a balance and a
\* totalPaidOut read in two calls with cheques cashed and tokens deposited in
\* between, is never above balance + totalPaidOut - totalIssued of the chain
\* as it is when the second read returns, so an Issue that passes the funds
\* check has an amount within that true available balance.
C18_ComputedWithinTrueAvailable ==
  [][\A p \in Procs :
       (call[p].op = "Issue" /\ pc[p] = "AB_TotalPaidOut" /\ pc'[p] # pc[p]) =>
          /\ ComputedAvailable(p) <= TrueAvailable
          /\ (pc'[p] = "LastCheque") => call[p].amount <= TrueAvailable
    ]_vars

\* C19: in every state in which no Issue holds the lock, also after Issue
\* calls that returned an error of reading or writing the store, the counter
\* equals the sum over the beneficiaries of the cumulativePayout of their
\* ledger entries (amounts above 0, store empty at the start).
C19_CounterIsLedgerSum ==
  (lock = NoProc) =>
     totalIssued(store) = SumOver([b \in Beneficiaries |-> LedgerPayout(b)], Beneficiaries)

\* C20: the lock is held only by an Issue in progress, every step in which an
\* Issue returns (nil or any error) releases it, and no step of an Issue that
\* holds the lock waits for the lock; so when the collaborators always
\* return and the mutex is fair, every Issue that waits for the lock gets it
\* and every Issue returns.
C20_IssueReturns ==
  /\ [](\A p \in Procs :
          (lock = p) => (call[p].op = "Issue" /\ pc[p] \in IssuePcs))
  /\ [][\A p \in Procs :
          (call[p].op = "Issue" /\ pc[p] \in IssuePcs /\ pc'[p] = "idle") =>
             (lock = p /\ lock' = NoProc)]_vars
  /\ \A p \in Procs : (pc[p] = "Lock") ~> (lock = p)
  /\ \A p \in Procs : (call[p].op = "Issue") ~> (pc[p] = "idle")

\* an Issue waits for the lock that another Issue holds
C20_Witness ==
  \E p, q \in Procs :
    /\ pc[p] = "Lock"
    /\ lock = q
    /\ pc[q] \in IssuePcs
    /\ nCalls = MaxCalls

====
